---- MODULE Spec2Model ----
(***************************************************************************)
(* Model of the calendar chat agent (calendar_chat.py): the calendar       *)
(* gateway CalendarService, the oracle wrapper GeminiAgent and the         *)
(* dispatcher CalendarChatAgent.process_query.                             *)
(*                                                                         *)
(* Text is modelled as a sequence of one-character strings (utterances,    *)
(* keywords, event ids) or of tokens (oracle responses, replies).  Python  *)
(* dicts are functions whose DOMAIN is the dict's key set.  Time is a      *)
(* natural number of hours; datetime.isoformat() and str(datetime) are     *)
(* table look-ups into distinct string tables.                             *)
(***************************************************************************)
EXTENDS Integers, Sequences, FiniteSets, TLC

VARIABLES
    store,        \* the remote calendar: event id -> event resource (a dict)
    now,          \* the wall clock read by datetime.utcnow(), in hours
    pc,           \* position of the current process_query invocation
    user_input,   \* the utterance of the current invocation
    invokedAt,    \* the clock value when the invocation was entered
    context,      \* the rendered calendar context (get_calendar_context)
    response,     \* the raw text parse_calendar_command works on (its local), until
                  \* the dispatcher acts on the intent
    parsed,       \* the dict parse_calendar_command returned
    createArgs,   \* the create_event call of this invocation: its arguments and
                  \* how the remote insert ended
    reply,        \* the string process_query returned
    calls,        \* the remote calls of this invocation, in order
    path,         \* the phases this invocation went through, in order
    store0,       \* the remote calendar as it was when the invocation was entered
    gwCall,       \* the last direct call of a CalendarService method
    gwResult,     \* what that call returned
    chat_agents,  \* web_app.chat_agents: session id -> the agent registered for it
    cookie,       \* the session cookie the browser holds (the Flask session dict)
    req,          \* the request each server thread is handling and its position
    tokens,       \* how many session ids secrets.token_hex has handed out
    builtFor,     \* for every CalendarChatAgent constructed, the session id it was
                  \* constructed for, in order of construction
    served,       \* the requests answered by an agent: session id, agent, and what
                  \* the registry and the session were at that moment
    loggedOut     \* the session ids /logout has been requested for

vars == <<store, now, pc, user_input, invokedAt, context, response, parsed,
          createArgs, reply, calls, path, store0, gwCall, gwResult,
          chat_agents, cookie, req, tokens, builtFor, served, loggedOut>>

\* the state of a process_query invocation
qvars == <<pc, user_input, invokedAt, context, response, parsed, createArgs, reply,
           calls, path, store0>>

\* the record of the direct gateway calls
gw == <<gwCall, gwResult>>

\* the state of the web application
web == <<chat_agents, cookie, req, tokens, builtFor, served, loggedOut>>

\* ---------------------------------------------------------------- bounds

MaxClock == 1
MaxLen == 3
MaxEvents == 1
MaxThreads == 2
MaxSessions == 2
MaxAgents == 2

\* ------------------------------------------------------ Python primitives

None == "None"

NoDict == <<>>

Get(d, k, default) == IF k \in DOMAIN d THEN d[k] ELSE default

\* truth value of a string-or-None (if parsed.get(...):)
Truthy(v) == v # None /\ v # ""

\* truth value of a dict or a list (if event:, if events:)
NonEmpty(d) == DOMAIN d # {}

Min(a, b) == IF a <= b THEN a ELSE b

Slice(s, start, end) == SubSeq(s, start + 1, end)

Contains(hay, needle) ==
    \E i \in 0..(Len(hay) - Len(needle)) : Slice(hay, i, i + Len(needle)) = needle

Find(s, c) ==
    IF \E i \in 1..Len(s) : s[i] = c
    THEN (CHOOSE i \in 1..Len(s) : s[i] = c /\ \A j \in 1..(i - 1) : s[j] # c) - 1
    ELSE -1

RFind(s, c) ==
    IF \E i \in 1..Len(s) : s[i] = c
    THEN (CHOOSE i \in 1..Len(s) : s[i] = c /\ \A j \in (i + 1)..Len(s) : s[j] # c) - 1
    ELSE -1

LowerChar(c) ==
    CASE c = "A" -> "a" [] c = "B" -> "b" [] c = "C" -> "c" [] c = "D" -> "d"
      [] c = "E" -> "e" [] c = "F" -> "f" [] c = "G" -> "g" [] c = "H" -> "h"
      [] c = "I" -> "i" [] c = "J" -> "j" [] c = "K" -> "k" [] c = "L" -> "l"
      [] c = "M" -> "m" [] c = "N" -> "n" [] c = "O" -> "o" [] c = "P" -> "p"
      [] c = "Q" -> "q" [] c = "R" -> "r" [] c = "S" -> "s" [] c = "T" -> "t"
      [] c = "U" -> "u" [] c = "V" -> "v" [] c = "W" -> "w" [] c = "X" -> "x"
      [] c = "Y" -> "y" [] c = "Z" -> "z" [] OTHER -> c

Lower(s) == [i \in 1..Len(s) |-> LowerChar(s[i])]

\* ------------------------------------------------------------------ time

Hour == 1

IsoTable ==
    << "2026-01-01T00:00:00", "2026-01-01T01:00:00", "2026-01-01T02:00:00",
       "2026-01-01T03:00:00", "2026-01-01T04:00:00", "2026-01-01T05:00:00",
       "2026-01-01T06:00:00", "2026-01-01T07:00:00", "2026-01-01T08:00:00",
       "2026-01-01T09:00:00" >>

StrTable ==
    << "2026-01-01 00:00:00", "2026-01-01 01:00:00", "2026-01-01 02:00:00",
       "2026-01-01 03:00:00", "2026-01-01 04:00:00", "2026-01-01 05:00:00",
       "2026-01-01 06:00:00", "2026-01-01 07:00:00", "2026-01-01 08:00:00",
       "2026-01-01 09:00:00" >>

Isoformat(t) == IsoTable[t + 1]

DatetimeStr(t) == StrTable[t + 1]

FromIso(s) == (CHOOSE i \in 1..Len(IsoTable) : IsoTable[i] = s) - 1

AllDayDate == "2026-01-01"

\* ------------------------------------------------- the remote calendar API

\* how one remote request ends: a response, googleapiclient's HttpError, or
\* any other exception (transport failure, credential refresh failure)
Outcomes == {"ok", "http", "other"}

IdPool ==
    << <<"e", "v", "t", "0", "0", "0", "0", "0", "1">>,
       <<"e", "v", "t", "0", "0", "0", "0", "0", "2">>,
       <<"a", "b", "c">>,
       <<"e", "v", "t", "0", "0", "0", "0", "0", "4">> >>

PreId == <<"p", "r", "e", "0", "0", "0", "0", "0", "0", "0">>

\* an untitled all-day event that exists before the agent is constructed
PreEvent ==
    [id |-> PreId,
     location |-> "Room 1",
     start |-> [date |-> AllDayDate],
     end |-> [date |-> AllDayDate]]

StartHour(e) ==
    IF "dateTime" \in DOMAIN e["start"] THEN FromIso(e["start"]["dateTime"]) ELSE 0

EndHour(e) ==
    IF "dateTime" \in DOMAIN e["end"] THEN FromIso(e["end"]["dateTime"]) ELSE 24

RECURSIVE OrderByStart(_, _)
OrderByStart(st, ids) ==
    IF ids = {} THEN <<>>
    ELSE LET first == CHOOSE i \in ids :
                         \A j \in ids : StartHour(st[i]) <= StartHour(st[j])
         IN <<st[first]>> \o OrderByStart(st, ids \ {first})

\* events().list(timeMin, timeMax, maxResults, singleEvents, orderBy='startTime')
EventsList(st, timeMin, timeMax, maxResults) ==
    LET lo == FromIso(timeMin[1])
        upcoming == {i \in DOMAIN st :
                        /\ EndHour(st[i]) > lo
                        /\ timeMax # <<>> => StartHour(st[i]) < FromIso(timeMax[1])}
        ordered == OrderByStart(st, upcoming)
    IN SubSeq(ordered, 1, Min(maxResults, Len(ordered)))

FreshId(st) ==
    IdPool[CHOOSE i \in 1..Len(IdPool) :
               /\ IdPool[i] \notin DOMAIN st
               /\ \A j \in 1..(i - 1) : IdPool[j] \in DOMAIN st]

\* events().insert(body): the stored resource is the body plus a fresh id
EventsInsert(st, body) ==
    LET id == FreshId(st) IN ("id" :> id) @@ body

\* ------------------------------------------------------- CalendarService

MAX_RESULTS == 10

\* list_events without the except clause: an HttpError propagates
ListEventsUncaught(outcome, st, clock, max_results, time_min, time_max) ==
    LET tmin == IF time_min = <<>> THEN clock ELSE time_min[1]
        time_min_str == <<Isoformat(tmin), "Z">>
        time_max_str == IF time_max # <<>> THEN <<Isoformat(time_max[1]), "Z">> ELSE <<>>
    IN CASE outcome = "ok" ->
              [raised |-> FALSE,
               value |-> EventsList(st, time_min_str, time_max_str, max_results)]
         [] OTHER -> [raised |-> TRUE, value |-> <<>>]

\* an Optional[datetime] argument is <<>> (None) or <<t>>
ListEvents(outcome, st, clock, max_results, time_min, time_max) ==
    LET tmin == IF time_min = <<>> THEN clock ELSE time_min[1]
        time_min_str == <<Isoformat(tmin), "Z">>
        time_max_str == IF time_max # <<>> THEN <<Isoformat(time_max[1]), "Z">> ELSE <<>>
    IN CASE outcome = "ok" ->
              [raised |-> FALSE,
               value |-> EventsList(st, time_min_str, time_max_str, max_results)]
         [] outcome = "http" -> [raised |-> FALSE, value |-> <<>>]
         [] OTHER -> [raised |-> TRUE, value |-> <<>>]

CreateEventBody(summary, start_time, end_time, description, location) ==
    [summary |-> summary,
     location |-> location,
     description |-> description,
     start |-> [dateTime |-> Isoformat(start_time), timeZone |-> "UTC"],
     end |-> [dateTime |-> Isoformat(end_time), timeZone |-> "UTC"]]

CreateEvent(outcome, st, summary, start_time, end_time, description, location) ==
    LET body == CreateEventBody(summary, start_time, end_time, description, location)
    IN CASE outcome = "ok" ->
              LET event == EventsInsert(st, body)
              IN [raised |-> FALSE, value |-> event,
                  store |-> (event["id"] :> event) @@ st]
         [] outcome = "http" -> [raised |-> FALSE, value |-> NoDict, store |-> st]
         [] OTHER -> [raised |-> TRUE, value |-> NoDict, store |-> st]

\* events().delete(eventId)
EventsDelete(st, event_id) == [i \in DOMAIN st \ {event_id} |-> st[i]]

DeleteEvent(outcome, st, event_id) ==
    CASE outcome = "ok" /\ event_id \in DOMAIN st ->
              [raised |-> FALSE, value |-> TRUE, store |-> EventsDelete(st, event_id)]
      [] outcome = "other" -> [raised |-> TRUE, value |-> FALSE, store |-> st]
      [] OTHER -> [raised |-> FALSE, value |-> FALSE, store |-> st]

\* the field loop with every key of kwargs assigned
UpdateFieldsAll(event, kwargs) == kwargs @@ event

\* for key, value in kwargs.items(): if key in event: event[key] = value
UpdateFields(event, kwargs) ==
    [key \in DOMAIN event |-> IF key \in DOMAIN kwargs THEN kwargs[key] ELSE event[key]]

\* events().update(eventId, body)
EventsUpdate(st, event_id, body) == [st EXCEPT ![event_id] = body]

\* get_outcome and put_outcome: how events().get and events().update end; an
\* unknown id is answered with an HttpError (404)
UpdateEvent(get_outcome, put_outcome, st, event_id, kwargs) ==
    IF get_outcome = "other"
    THEN [raised |-> TRUE, value |-> NoDict, store |-> st]
    ELSE IF get_outcome = "http" \/ event_id \notin DOMAIN st
    THEN [raised |-> FALSE, value |-> NoDict, store |-> st]
    ELSE LET event == UpdateFields(st[event_id], kwargs)
         IN CASE put_outcome = "ok" ->
                   [raised |-> FALSE, value |-> event,
                    store |-> EventsUpdate(st, event_id, event)]
              [] put_outcome = "http" ->
                   [raised |-> FALSE, value |-> NoDict, store |-> st]
              [] OTHER -> [raised |-> TRUE, value |-> NoDict, store |-> st]

\* ------------------------------------------ CalendarChatAgent.format_events

ID_PREFIX == 8

FormatLine(event) ==
    LET start == Get(event["start"], "dateTime", Get(event["start"], "date", None))
        summary == Get(event, "summary", "No title")
        event_id == Get(event, "id", <<>>)
    IN <<"- ", start, ": ", summary, " (ID: ">> \o Slice(event_id, 0, Min(ID_PREFIX, Len(event_id)))
         \o <<"...)">>

RECURSIVE JoinLines(_)
JoinLines(lines) ==
    IF Len(lines) = 0 THEN <<>>
    ELSE IF Len(lines) = 1 THEN lines[1]
    ELSE lines[1] \o <<"\n">> \o JoinLines(Tail(lines))

FormatEvents(events) ==
    IF ~NonEmpty(events)
    THEN [raised |-> FALSE, value |-> <<"No upcoming events found.">>]
    ELSE IF \E i \in 1..Len(events) : "start" \notin DOMAIN events[i]
    THEN [raised |-> TRUE, value |-> <<>>]
    ELSE [raised |-> FALSE,
          value |-> JoinLines([i \in 1..Len(events) |-> FormatLine(events[i])])]

\* ------------------------------------------------------------ GeminiAgent

\* Tokens of an oracle text: a brace, a stretch of prose "x", or "m", the text
\* of a well-formed JSON member list.
Tokens == {"{", "}", "x", "m"}

RECURSIVE SeqsUpTo(_, _)
SeqsUpTo(S, n) ==
    IF n = 0 THEN {<<>>}
    ELSE LET shorter == SeqsUpTo(S, n - 1)
         IN shorter \cup {Append(s, c) : s \in {t \in shorter : Len(t) = n - 1}, c \in S}

Texts == SeqsUpTo(Tokens, MaxLen)

\* the messages of the exceptions generate_content may raise
ErrorMessages == {<<"x">>, <<"{", "m", "}">>}

\* the objects the member list "m" of a response may denote
Intents ==
    { [action |-> "create", summary |-> "Team Sync", confidence |-> "high"],
      [action |-> "create", description |-> "weekly", confidence |-> "medium"],
      [action |-> "create", summary |-> "Team Sync", start_time |-> Isoformat(5),
       end_time |-> Isoformat(7), confidence |-> "high"],
      [action |-> "create", summary |-> "Team Sync", confidence |-> "low",
       clarification_needed |-> "When?"],
      [action |-> "delete", confidence |-> "low",
       clarification_needed |-> "Which event?"],
      [action |-> "delete", summary |-> "Team Sync", confidence |-> "high"],
      [action |-> "update", confidence |-> "medium", clarification_needed |-> ""],
      [confidence |-> "low", clarification_needed |-> "Say more"] }

\* the objects the member list of text may denote; what it denotes matters only
\* where it stands in braces, so there is one choice elsewhere
PayloadsOf(text) ==
    IF Contains(text, <<"{", "m", "}">>)
    THEN Intents
    ELSE {CHOOSE p \in Intents : TRUE}

Completions(raises, texts) ==
    {[raises |-> raises, text |-> r[1], payload |-> r[2]] :
        r \in UNION {{<<t, p>> : p \in PayloadsOf(t)} : t \in texts}}

\* one completion request: it raises with message text, or answers text whose
\* member list (if any) denotes payload
OracleResults == Completions(FALSE, Texts) \cup Completions(TRUE, ErrorMessages)

\* the completions of the conversational prompt: a short answer or an exception
ChatResults ==
    Completions(FALSE, {t \in Texts : Len(t) <= 1}) \cup Completions(TRUE, {<<"x">>})

GenerateResponse(o) ==
    IF o.raises THEN <<"Error generating response: ">> \o o.text ELSE o.text

\* json.loads on the slice between the first "{" and the last "}"
JsonLoads(json_str, payload) ==
    IF json_str = <<"{", "}">> THEN [ok |-> TRUE, value |-> NoDict]
    ELSE IF json_str = <<"{", "m", "}">> THEN [ok |-> TRUE, value |-> payload]
    ELSE [ok |-> FALSE, value |-> NoDict]

NotUnderstood ==
    [action |-> "unknown", confidence |-> "low",
     clarification_needed |-> "Could not understand the request"]

NotParsed ==
    [action |-> "unknown", confidence |-> "low",
     clarification_needed |-> "Could not parse the request"]

\* the extraction without the test that the last "}" follows the first "{"
ExtractJsonNoEndTest(text, payload) ==
    LET start == Find(text, "{")
        end == RFind(text, "}") + 1
    IN IF start >= 0
       THEN LET loaded == JsonLoads(Slice(text, start, end), payload)
            IN IF loaded.ok THEN loaded.value ELSE NotParsed
       ELSE NotUnderstood

ExtractJson(text, payload) ==
    LET start == Find(text, "{")
        end == RFind(text, "}") + 1
    IN IF start >= 0 /\ end > start
       THEN LET loaded == JsonLoads(Slice(text, start, end), payload)
            IN IF loaded.ok THEN loaded.value ELSE NotParsed
       ELSE NotUnderstood

ParseCalendarCommand(o) == ExtractJson(GenerateResponse(o), o.payload)

\* ------------------------------------------------------ CalendarChatAgent

Keywords ==
    { <<"l", "i", "s", "t">>, <<"s", "h", "o", "w">>, <<"w", "h", "a", "t">>,
      <<"u", "p", "c", "o", "m", "i", "n", "g">>, <<"e", "v", "e", "n", "t", "s">> }

\* the keyword test without lower-casing the utterance
IsFastPathCaseSensitive(text) ==
    \E keyword \in Keywords : Contains(text, keyword)

IsFastPath(text) ==
    LET user_input_lower == Lower(text)
    IN \E keyword \in Keywords : Contains(user_input_lower, keyword)

Utterances ==
    { <<"S", "h", "o", "w">>,
      <<"m", "y", " ", "L", "I", "S", "T">>,
      <<"w", "h", "a", "t", "e", "v", "e", "r">>,
      <<"U", "p", "C", "o", "m", "i", "n", "g">>,
      <<"e", "v", "e", "n", "t", "s", "?">>,
      <<"a", "d", "d">>,
      <<"l", "i", "s", " ", "t">> }

NoEventsReply == <<"You have no upcoming events.">>

ListReply(events) ==
    IF NonEmpty(events)
    THEN <<"Here are your upcoming events:\n\n">> \o FormatEvents(events).value
    ELSE NoEventsReply

CreatedReply(summary, start_time, end_time) ==
    <<"Created event: ", summary, "\nStart: ", DatetimeStr(start_time),
      "\nEnd: ", DatetimeStr(end_time)>>

FailedReply == <<"Failed to create event">>

ErrorCreatingReply == <<"Error creating event: ", "Exception">>

\* the thinking-face marker that opens a request for clarification
ClarifyMarker == "(?) "

ClarifyReply(question) == <<ClarifyMarker, question>>

NoArgs == <<>>

Init ==
    /\ store = <<>>
    /\ now = 0
    /\ pc = "idle"
    /\ user_input = <<>>
    /\ invokedAt = 0
    /\ context = <<>>
    /\ response = <<>>
    /\ parsed = NoDict
    /\ createArgs = NoArgs
    /\ reply = <<>>
    /\ calls = <<>>
    /\ path = <<>>
    /\ store0 = <<>>
    /\ gwCall = [op |-> "none"]
    /\ gwResult = [raised |-> FALSE, value |-> NoDict]
    /\ chat_agents = <<>>
    /\ cookie = <<>>
    /\ req = [t \in 1..MaxThreads |->
                [pc |-> "idle", route |-> "none", session |-> <<>>, agent |-> 0,
                 status |-> "none"]]
    /\ tokens = 0
    /\ builtFor = <<>>
    /\ served = {}
    /\ loggedOut = {}

\* the clock advances, also while a remote call is in progress
Tick ==
    /\ now < MaxClock
    /\ now' = now + 1
    /\ UNCHANGED <<store, pc, user_input, invokedAt, context, response, parsed,
                   createArgs, reply, calls, path, store0>>
    /\ UNCHANGED <<gw, web>>

\* a caller enters process_query(user_input)
Receive(u) ==
    /\ pc \in {"idle", "done", "raised"}
    /\ pc' = "context"
    /\ user_input' = u
    /\ invokedAt' = now
    /\ context' = <<>>
    /\ response' = <<>>
    /\ parsed' = NoDict
    /\ createArgs' = NoArgs
    /\ reply' = <<>>
    /\ calls' = <<>>
    /\ path' = <<"Received">>
    /\ store0' = store
    /\ UNCHANGED <<store, now>>
    /\ UNCHANGED <<gw, web>>

\* get_calendar_context with a second fetch after an empty first one
GetCalendarContextRetry(outcome) ==
    /\ pc = "context"
    /\ LET events == ListEvents(outcome, store, now, MAX_RESULTS, <<>>, <<>>)
           formatted == FormatEvents(events.value)
       IN IF events.raised \/ formatted.raised
          THEN /\ pc' = "raised"
               /\ path' = Append(path, "Raised")
               /\ calls' = Append(calls, "list")
               /\ UNCHANGED context
          ELSE /\ pc' = "fetched"
               /\ path' = Append(path, "ContextFetched")
               /\ calls' = IF NonEmpty(events.value) THEN Append(calls, "list")
                           ELSE calls \o <<"list", "list">>
               /\ context' = <<"Upcoming events:\n">> \o formatted.value
    /\ UNCHANGED <<store, now, user_input, invokedAt, response, parsed, createArgs,
                   reply, store0>>
    /\ UNCHANGED <<gw, web>>

\* context = self.get_calendar_context()
GetCalendarContext(outcome) ==
    /\ pc = "context"
    /\ calls' = Append(calls, "list")
    /\ LET events == ListEvents(outcome, store, now, MAX_RESULTS, <<>>, <<>>)
           formatted == FormatEvents(events.value)
       IN IF events.raised \/ formatted.raised
          THEN /\ pc' = "raised"
               /\ path' = Append(path, "Raised")
               /\ UNCHANGED context
          ELSE /\ pc' = "fetched"
               /\ path' = Append(path, "ContextFetched")
               /\ context' = <<"Upcoming events:\n">> \o formatted.value
    /\ UNCHANGED <<store, now, user_input, invokedAt, response, parsed, createArgs,
                   reply, store0>>
    /\ UNCHANGED <<gw, web>>

\* the keyword branch: list the events and return
ListBranch(outcome) ==
    /\ pc = "fetched"
    /\ IsFastPath(user_input)
    /\ calls' = Append(calls, "list")
    /\ LET events == ListEvents(outcome, store, now, MAX_RESULTS, <<>>, <<>>)
       IN IF events.raised \/ FormatEvents(events.value).raised
          THEN /\ pc' = "raised"
               /\ path' = path \o <<"FastPathMatched", "Raised">>
               /\ UNCHANGED reply
          ELSE /\ pc' = "done"
               /\ path' = path \o <<"FastPathMatched", "Executed", "Replied">>
               /\ reply' = ListReply(events.value)
    /\ UNCHANGED <<store, now, user_input, invokedAt, context, response, parsed,
                   createArgs, store0>>
    /\ UNCHANGED <<gw, web>>

\* parsed = self.ai.parse_calendar_command(user_input, context)
ParseBranch(o) ==
    /\ pc = "fetched"
    /\ ~IsFastPath(user_input)
    /\ calls' = Append(calls, "oracle")
    /\ response' = GenerateResponse(o)
    /\ parsed' = ParseCalendarCommand(o)
    /\ pc' = "parsed"
    /\ path' = Append(path, "OracleConsulted")
    /\ UNCHANGED <<store, now, user_input, invokedAt, context, createArgs, reply, store0>>
    /\ UNCHANGED <<gw, web>>

\* start_time without the hour added
CreateStartNow(p, clock) == clock

\* start_time taken from the intent when it carries one
CreateStartFromIntent(p, clock) ==
    IF "start_time" \in DOMAIN p THEN FromIso(p["start_time"]) ELSE clock + Hour

CreateStart(p, clock) == clock + Hour

CreateEnd(p, start_time) == start_time + Hour

\* the dispatcher with the clarification test placed before the create test
CreateBranchAfterClarify(outcome) ==
    /\ pc = "parsed"
    /\ Get(parsed, "action", None) = "create"
    /\ outcome = "ok" => Cardinality(DOMAIN store \ {PreId}) < MaxEvents
    /\ LET summary == Get(parsed, "summary", "New Event")
           start_time == CreateStart(parsed, now)
           end_time == CreateEnd(parsed, start_time)
           description == Get(parsed, "description", "")
           event == CreateEvent(outcome, store, summary, start_time, end_time,
                                description, "")
           asks == Truthy(Get(parsed, "clarification_needed", None))
       IN /\ createArgs' = IF asks THEN createArgs
                           ELSE [summary |-> summary, start_time |-> start_time,
                                 end_time |-> end_time, description |-> description,
                                 outcome |-> outcome]
          /\ store' = IF asks THEN store ELSE event.store
          /\ reply' = IF asks THEN ClarifyReply(parsed["clarification_needed"])
                      ELSE IF event.raised THEN ErrorCreatingReply
                      ELSE IF NonEmpty(event.value)
                           THEN CreatedReply(summary, start_time, end_time)
                           ELSE FailedReply
          /\ calls' = IF asks THEN calls ELSE Append(calls, "create")
          /\ path' = IF asks THEN path \o <<"ClarificationRequested", "Replied">>
                     ELSE path \o <<"Executed", "Replied">>
    /\ pc' = "done"
    /\ response' = <<>>
    /\ UNCHANGED <<now, user_input, invokedAt, context, parsed, store0>>
    /\ UNCHANGED <<gw, web>>

\* if parsed.get('action') == 'create': ... self.calendar.create_event(...)
CreateBranch(outcome) ==
    /\ pc = "parsed"
    /\ Get(parsed, "action", None) = "create"
    /\ outcome = "ok" => Cardinality(DOMAIN store \ {PreId}) < MaxEvents
    /\ LET summary == Get(parsed, "summary", "New Event")
           start_time == CreateStart(parsed, now)
           end_time == CreateEnd(parsed, start_time)
           description == Get(parsed, "description", "")
           event == CreateEvent(outcome, store, summary, start_time, end_time,
                                description, "")
       IN /\ createArgs' = [summary |-> summary, start_time |-> start_time,
                            end_time |-> end_time, description |-> description,
                            outcome |-> outcome]
          /\ store' = event.store
          /\ reply' = IF event.raised THEN ErrorCreatingReply
                      ELSE IF NonEmpty(event.value)
                           THEN CreatedReply(summary, start_time, end_time)
                           ELSE FailedReply
    /\ calls' = Append(calls, "create")
    /\ pc' = "done"
    /\ path' = path \o <<"Executed", "Replied">>
    /\ response' = <<>>
    /\ UNCHANGED <<now, user_input, invokedAt, context, parsed, store0>>
    /\ UNCHANGED <<gw, web>>

\* the clarification branch with the question sent through the oracle first
ClarifyBranchRephrased ==
    /\ pc = "parsed"
    /\ Get(parsed, "action", None) # "create"
    /\ Truthy(Get(parsed, "clarification_needed", None))
    /\ reply' = ClarifyReply(parsed["clarification_needed"])
    /\ pc' = "done"
    /\ path' = path \o <<"ClarificationRequested", "Replied">>
    /\ response' = <<>>
    /\ calls' = Append(calls, "oracle")
    /\ UNCHANGED <<store, now, user_input, invokedAt, context, parsed, createArgs, store0>>
    /\ UNCHANGED <<gw, web>>

\* if parsed.get('clarification_needed'): return the question
ClarifyBranch ==
    /\ pc = "parsed"
    /\ Get(parsed, "action", None) # "create"
    /\ Truthy(Get(parsed, "clarification_needed", None))
    /\ reply' = ClarifyReply(parsed["clarification_needed"])
    /\ pc' = "done"
    /\ path' = path \o <<"ClarificationRequested", "Replied">>
    /\ response' = <<>>
    /\ UNCHANGED <<store, now, user_input, invokedAt, context, parsed, createArgs,
                   calls, store0>>
    /\ UNCHANGED <<gw, web>>

\* the conversational branch carrying out a delete intent on the first event
\* of the calendar before the oracle is asked for the reply
ConverseBranchActing(o) ==
    /\ pc = "parsed"
    /\ Get(parsed, "action", None) # "create"
    /\ ~Truthy(Get(parsed, "clarification_needed", None))
    /\ calls' = IF Get(parsed, "action", None) = "delete" /\ DOMAIN store # {}
                THEN calls \o <<"delete", "oracle">>
                ELSE Append(calls, "oracle")
    /\ store' = IF Get(parsed, "action", None) = "delete" /\ DOMAIN store # {}
                THEN DeleteEvent("ok", store, CHOOSE i \in DOMAIN store : TRUE).store
                ELSE store
    /\ reply' = GenerateResponse(o)
    /\ pc' = "done"
    /\ path' = path \o <<"ConversationalReply", "Replied">>
    /\ response' = <<>>
    /\ UNCHANGED <<now, user_input, invokedAt, context, parsed, createArgs, store0>>
    /\ UNCHANGED <<gw, web>>

\* ai_response = self.ai.generate_response(user_input, context=...)
ConverseBranch(o) ==
    /\ pc = "parsed"
    /\ Get(parsed, "action", None) # "create"
    /\ ~Truthy(Get(parsed, "clarification_needed", None))
    /\ calls' = Append(calls, "oracle")
    /\ reply' = GenerateResponse(o)
    /\ pc' = "done"
    /\ path' = path \o <<"ConversationalReply", "Replied">>
    /\ response' = <<>>
    /\ UNCHANGED <<store, now, user_input, invokedAt, context, parsed, createArgs, store0>>
    /\ UNCHANGED <<gw, web>>

Next ==
    \/ Tick
    \/ \E u \in Utterances : Receive(u)
    \/ \E outcome \in Outcomes : GetCalendarContext(outcome)
    \/ \E outcome \in Outcomes : ListBranch(outcome)
    \/ \E o \in OracleResults : ParseBranch(o)
    \/ \E outcome \in Outcomes : CreateBranch(outcome)
    \/ ClarifyBranch
    \/ \E o \in ChatResults : ConverseBranch(o)

Spec == Init /\ [][Next]_vars

\* --------------------------------- CalendarService called directly (API)

\* the ids a caller may name: those the calendar can hold, and one it cannot
EventIds == {PreId} \cup {IdPool[i] : i \in 1..(MaxEvents + 1)}

UpdateKeys == {"summary", "location", "colorId"}

UpdateValue(key) ==
    CASE key = "summary" -> "Standup" [] key = "location" -> "Room 2" [] OTHER -> "7"

\* the keyword arguments a caller passes to update_event
Kwargs == {[key \in K |-> UpdateValue(key)] : K \in SUBSET UpdateKeys}

\* the untitled all-day event is put on the calendar by another client
GwSeed ==
    /\ PreId \notin DOMAIN store
    /\ gwCall.op = "none"
    /\ store' = (PreId :> PreEvent) @@ store
    /\ UNCHANGED <<now, qvars, gw, web>>

GwList(outcome, max_results) ==
    /\ LET r == ListEvents(outcome, store, now, max_results, <<>>, <<>>)
       IN gwResult' = [raised |-> r.raised, value |-> r.value]
    /\ gwCall' = [op |-> "list", max_results |-> max_results, outcome |-> outcome,
                  before |-> store]
    /\ UNCHANGED <<store, now, qvars, web>>

GwCreate(outcome, summary) ==
    /\ outcome = "ok" => Cardinality(DOMAIN store \ {PreId}) < MaxEvents
    /\ LET r == CreateEvent(outcome, store, summary, now + Hour, now + Hour + Hour, "", "")
       IN /\ gwResult' = [raised |-> r.raised, value |-> r.value]
          /\ store' = r.store
    /\ gwCall' = [op |-> "create", summary |-> summary, outcome |-> outcome,
                  before |-> store]
    /\ UNCHANGED <<now, qvars, web>>

GwDelete(outcome, event_id) ==
    /\ LET r == DeleteEvent(outcome, store, event_id)
       IN /\ gwResult' = [raised |-> r.raised, value |-> r.value]
          /\ store' = r.store
    /\ gwCall' = [op |-> "delete", event_id |-> event_id, outcome |-> outcome,
                  before |-> store]
    /\ UNCHANGED <<now, qvars, web>>

GwUpdate(get_outcome, put_outcome, event_id, kwargs) ==
    /\ get_outcome # "ok" => put_outcome = "ok"
    /\ LET r == UpdateEvent(get_outcome, put_outcome, store, event_id, kwargs)
       IN /\ gwResult' = [raised |-> r.raised, value |-> r.value]
          /\ store' = r.store
    /\ gwCall' = [op |-> "update", event_id |-> event_id, kwargs |-> kwargs,
                  get_outcome |-> get_outcome, put_outcome |-> put_outcome,
                  before |-> store]
    /\ UNCHANGED <<now, qvars, web>>

GwNext ==
    \/ GwSeed
    \/ \E outcome \in Outcomes : \E max_results \in {1, MAX_RESULTS} :
          GwList(outcome, max_results)
    \/ \E outcome \in Outcomes : \E summary \in {"Team Sync"} : GwCreate(outcome, summary)
    \/ \E outcome \in Outcomes : \E event_id \in EventIds : GwDelete(outcome, event_id)
    \/ \E get_outcome \in Outcomes : \E put_outcome \in Outcomes :
          \E event_id \in EventIds : \E kwargs \in Kwargs :
              GwUpdate(get_outcome, put_outcome, event_id, kwargs)

SpecGateway == Init /\ [][GwNext]_vars

\* ------------------------------------------------------------ properties

\* the fast-path keywords as the specification lists them
SpecKeywords ==
    { <<"l", "i", "s", "t">>, <<"s", "h", "o", "w">>, <<"w", "h", "a", "t">>,
      <<"u", "p", "c", "o", "m", "i", "n", "g">>, <<"e", "v", "e", "n", "t", "s">> }

\* the utterance contains a keyword, compared character by character without
\* regard to case
HasKeyword(u) ==
    \E k \in SpecKeywords : \E i \in 0..(Len(u) - Len(k)) :
        \A j \in 1..Len(k) : LowerChar(u[i + j]) = k[j]

Returned == pc = "done"

Ended == pc \in {"done", "raised"}

CallCount(op) == Cardinality({i \in 1..Len(calls) : calls[i] = op})

\* the list replies the calendar as it stands can give at some time of the invocation
ListReplies ==
    {NoEventsReply} \cup
    {ListReply(ListEvents("ok", store, t, MAX_RESULTS, <<>>, <<>>).value) : t \in invokedAt..now}

\* C1: for an utterance containing a fast-path keyword in any letter case,
\* process_query never calls the oracle and never calls a gateway mutation:
\* all its remote calls are gateway list calls, and the reply it returns is the
\* list reply (the events listing, or the no-events sentence).
C1_FastPathBypassesOracle ==
    HasKeyword(user_input) =>
        /\ \A i \in 1..Len(calls) : calls[i] = "list"
        /\ store = store0
        /\ Returned => reply \in ListReplies

\* a keyword utterance in capitals was answered with a listing of an event
C1_Witness ==
    /\ Returned
    /\ user_input = <<"m", "y", " ", "L", "I", "S", "T">>
    /\ calls = <<"list", "list">>
    /\ reply # NoEventsReply
    /\ reply \in ListReplies

\* C2: whatever the utterance and however the remote calls end, process_query
\* returns a reply and no exception escapes to its caller.
C2_NoExceptionEscapes == pc # "raised"

\* C3 as stated: every invocation makes at least one and at most two remote
\* calls.
C3_AtMostTwoCalls ==
    /\ Len(calls) <= 2
    /\ Ended => Len(calls) >= 1

\* C3 as amended: every invocation makes at least one and at most three remote
\* calls, one after another: list, list on the fast path; list, oracle on a
\* clarification; list, oracle, create on a create; list, oracle, oracle on the
\* conversational fallback.
C3_AtMostThreeCalls ==
    /\ Len(calls) <= 3
    /\ Ended => Len(calls) >= 1
    /\ Returned =>
          calls \in { <<"list", "list">>, <<"list", "oracle">>,
                      <<"list", "oracle", "create">>, <<"list", "oracle", "oracle">> }

\* a create ended after three remote calls
C3_Witness ==
    /\ Returned
    /\ calls = <<"list", "oracle", "create">>

\* the invocation consulted the oracle and the intent's action is create
CreateCase ==
    /\ Returned
    /\ ~HasKeyword(user_input)
    /\ "action" \in DOMAIN parsed
    /\ parsed["action"] = "create"

HasTimes == "start_time" \in DOMAIN parsed \/ "end_time" \in DOMAIN parsed

\* the event the gateway stored for this invocation's create call
CreatedEvents == {store[i] : i \in DOMAIN store \ DOMAIN store0}

C5_OracleTimesUsed ==
    CreateCase =>
        /\ "start_time" \in DOMAIN parsed =>
              IsoTable[createArgs.start_time + 1] = parsed["start_time"]
        /\ "end_time" \in DOMAIN parsed =>
              IsoTable[createArgs.end_time + 1] = parsed["end_time"]

\* C5 as amended: when the create intent carries a start_time or an end_time,
\* the event passed to gateway create does not use them: its start is one hour
\* after the clock reading of the create branch and its end one hour after the
\* start, as without them.
C5_OracleTimesIgnored ==
    (CreateCase /\ HasTimes) =>
        /\ createArgs.start_time \in (invokedAt + 1)..(now + 1)
        /\ createArgs.end_time = createArgs.start_time + 1
        /\ createArgs.outcome = "ok" =>
              \A e \in CreatedEvents :
                  /\ e["start"]["dateTime"] = IsoTable[createArgs.start_time + 1]
                  /\ e["end"]["dateTime"] = IsoTable[createArgs.end_time + 1]

\* an intent with start 05:00 and end 07:00 produced an event at another time
C5_Witness ==
    /\ CreateCase
    /\ "start_time" \in DOMAIN parsed
    /\ parsed["start_time"] = "2026-01-01T05:00:00"
    /\ createArgs.outcome = "ok"
    /\ \E e \in CreatedEvents : e["start"]["dateTime"] = "2026-01-01T01:00:00"

\* the text holds a "{" followed, somewhere later, by a "}"
BracePair(t) ==
    \E i \in 1..Len(t) : \E j \in (i + 1)..Len(t) : t[i] = "{" /\ t[j] = "}"

\* the text from the first "{" to the last "}"
Between(t) ==
    LET i == CHOOSE a \in 1..Len(t) : t[a] = "{" /\ \A b \in 1..(a - 1) : t[b] # "{"
        j == CHOOSE a \in 1..Len(t) : t[a] = "}" /\ \A b \in (a + 1)..Len(t) : t[b] # "}"
    IN SubSeq(t, i, j)

ValidJson(t) == t \in {<<"{", "}">>, <<"{", "m", "}">>}

NoJsonObject(t) == ~BracePair(t) \/ ~ValidJson(Between(t))

UnknownLow(message) ==
    [action |-> "unknown", confidence |-> "low", clarification_needed |-> message]

\* C6 as stated: for every response text from which no JSON object can be
\* extracted, parse_calendar_command returns the one fallback intent (Unknown,
\* Low, "Could not understand the request"), and process_query replies with the
\* clarification marker followed by that message.
C6_OneFallback ==
    /\ (pc = "parsed" /\ NoJsonObject(response)) =>
          parsed = UnknownLow("Could not understand the request")
    /\ (Returned /\ "action" \in DOMAIN parsed /\ parsed["action"] = "unknown") =>
          reply = <<ClarifyMarker, "Could not understand the request">>

\* C6 as amended: for every such text parse_calendar_command returns a fallback
\* intent with action Unknown and confidence Low, whose clarification is "Could
\* not understand the request" when the text has no "{" followed by a "}", and
\* "Could not parse the request" when the text between the first "{" and the
\* last "}" is not valid JSON; process_query replies with the clarification
\* marker followed by that message, after the list and the one oracle call.
C6_FallbackByCause ==
    /\ (pc = "parsed" /\ ~BracePair(response)) =>
          parsed = UnknownLow("Could not understand the request")
    /\ (pc = "parsed" /\ BracePair(response) /\ ~ValidJson(Between(response))) =>
          parsed = UnknownLow("Could not parse the request")
    /\ (Returned /\ "action" \in DOMAIN parsed /\ parsed["action"] = "unknown") =>
          /\ parsed \in {UnknownLow("Could not understand the request"),
                          UnknownLow("Could not parse the request")}
          /\ reply = <<ClarifyMarker, parsed["clarification_needed"]>>
          /\ calls = <<"list", "oracle">>

\* an invalid object between braces was answered with the parse message
C6_Witness ==
    /\ Returned
    /\ parsed = UnknownLow("Could not parse the request")
    /\ reply = <<ClarifyMarker, "Could not parse the request">>

\* a text without a brace pair reached the fallback
C6_WitnessNoBraces ==
    /\ pc = "parsed"
    /\ response = <<"}", "x", "{">>
    /\ parsed = UnknownLow("Could not understand the request")

\* C7: for a non-keyword utterance whose intent is not create and carries a
\* non-empty clarification question, process_query returns the question
\* verbatim behind the clarification marker, calls nothing after the list and
\* the one oracle call, and leaves the calendar as it was.
C7_ClarificationOnly ==
    ( /\ Returned
      /\ ~HasKeyword(user_input)
      /\ ~("action" \in DOMAIN parsed /\ parsed["action"] = "create")
      /\ "clarification_needed" \in DOMAIN parsed
      /\ parsed["clarification_needed"] \notin {"", None} ) =>
        /\ reply = <<ClarifyMarker, parsed["clarification_needed"]>>
        /\ calls = <<"list", "oracle">>
        /\ store = store0

\* a delete intent with a question was answered with the question, the
\* calendar holding an event
C7_Witness ==
    /\ Returned
    /\ "action" \in DOMAIN parsed
    /\ parsed["action"] = "delete"
    /\ reply = <<ClarifyMarker, "Which event?">>
    /\ DOMAIN store # {}

\* the events a successful list returns now
Upcoming == ListEvents("ok", store, now, MAX_RESULTS, <<>>, <<>>).value

\* C8: when the gateway list call fails with a backend error, list_events
\* returns an empty sequence without raising, and the list branch then returns
\* "You have no upcoming events.", the reply it gives when the list succeeds
\* with zero events.
C8_ListFailureReadsAsEmpty ==
    [][ /\ \A outcome \in Outcomes : ListBranch(outcome) => HasKeyword(user_input)
        /\ ListBranch("http") =>
              /\ ListEvents("http", store, now, MAX_RESULTS, <<>>, <<>>)
                    = [raised |-> FALSE, value |-> <<>>]
              /\ pc' = "done"
              /\ reply' = <<"You have no upcoming events.">>
        /\ (ListBranch("ok") /\ Upcoming = <<>>) =>
              /\ pc' = "done"
              /\ reply' = <<"You have no upcoming events.">> ]_vars

\* a keyword utterance got the no-events sentence while the calendar held an
\* upcoming event all through the invocation: the list call had failed
C8_Witness ==
    /\ Returned
    /\ HasKeyword(user_input)
    /\ reply = <<"You have no upcoming events.">>
    /\ \A t \in invokedAt..now :
          ListEvents("ok", store, t, MAX_RESULTS, <<>>, <<>>).value # <<>>

UpdateCalled == gwCall.op = "update"

\* C9: update_event overwrites exactly the fields of the fetched event whose
\* key is in the changes and on the event; the event's key set and its other
\* fields, and every other event, stay as they were, and the updated event is
\* returned; on a backend error (of the get, for an unknown id, or of the
\* update) the calendar is unchanged and the result is empty.
C9_UpdateOnlyPresentFields ==
    UpdateCalled =>
        LET before == gwCall.before
            id == gwCall.event_id
            changes == gwCall.kwargs
            succeeded == /\ gwCall.get_outcome = "ok"
                         /\ gwCall.put_outcome = "ok"
                         /\ id \in DOMAIN before
            failed == \/ gwCall.get_outcome = "http"
                      \/ gwCall.get_outcome = "ok" /\ id \notin DOMAIN before
                      \/ gwCall.get_outcome = "ok" /\ gwCall.put_outcome = "http"
        IN /\ succeeded =>
                /\ DOMAIN store = DOMAIN before
                /\ \A i \in DOMAIN before \ {id} : store[i] = before[i]
                /\ DOMAIN store[id] = DOMAIN before[id]
                /\ \A key \in DOMAIN before[id] :
                      store[id][key] = (IF key \in DOMAIN changes THEN changes[key]
                                        ELSE before[id][key])
                /\ ~gwResult.raised
                /\ gwResult.value = store[id]
           /\ failed =>
                /\ store = before
                /\ ~gwResult.raised
                /\ DOMAIN gwResult.value = {}

\* the untitled event was updated with a summary, a location and a colorId:
\* only its location changed
C9_Witness ==
    /\ UpdateCalled
    /\ gwCall.event_id = PreId
    /\ DOMAIN gwCall.kwargs = {"summary", "location", "colorId"}
    /\ PreId \in DOMAIN store
    /\ store[PreId]["location"] = "Room 2"
    /\ gwCall.before[PreId]["location"] = "Room 1"
    /\ "summary" \notin DOMAIN store[PreId]

PathsToReplied ==
    { <<"Received", "ContextFetched", "FastPathMatched", "Executed", "Replied">>,
      <<"Received", "ContextFetched", "OracleConsulted", "Executed", "Replied">>,
      <<"Received", "ContextFetched", "OracleConsulted", "ClarificationRequested",
        "Replied">>,
      <<"Received", "ContextFetched", "OracleConsulted", "ConversationalReply",
        "Replied">> }

IsPrefix(a, b) == Len(a) <= Len(b) /\ SubSeq(b, 1, Len(a)) = a

\* the order of the remote calls: the context list first, the oracle only for
\* an utterance without keyword, create only after the oracle
CallOrder ==
    /\ Len(calls) >= 1 => calls[1] = "list"
    /\ \A i \in 1..Len(calls) :
          /\ calls[i] = "oracle" => ~HasKeyword(user_input) /\ i >= 2
          /\ calls[i] = "create" => i >= 3 /\ calls[i - 1] = "oracle"

\* C10: every execution follows Received -> ContextFetched -> (FastPathMatched
\* or OracleConsulted) -> (Executed, ClarificationRequested or
\* ConversationalReply) -> Replied, with the context list as first remote call,
\* the oracle only after the keyword test missed and create only after the
\* oracle; an execution that has ended has reached Replied.
C10_PathToReplied ==
    /\ path # <<>> => \E full \in PathsToReplied : IsPrefix(path, full)
    /\ CallOrder
    /\ Ended => path \in PathsToReplied

\* what holds of the path: an execution follows it up to the remote call that
\* raises, and ends in Replied or in the exception
PathUnlessRaised ==
    /\ path # <<>> =>
          \E full \in PathsToReplied :
              \/ IsPrefix(path, full)
              \/ /\ pc = "raised"
                 /\ path[Len(path)] = "Raised"
                 /\ IsPrefix(SubSeq(path, 1, Len(path) - 1), full)
    /\ CallOrder
    /\ Returned => path \in PathsToReplied


\* --------------------------------- C11, C12: what the dispatcher leaves alone

\* the event the create call of this invocation was asked to store
NewEventIds == DOMAIN store \ DOMAIN store0

\* C11: process_query never invokes gateway delete or gateway update,
\* whatever the utterance and the intent (delete and update intents included):
\* its gateway calls are list, create and the oracle only, every event the
\* backend held when the call began is still there unmodified, and the backend
\* has grown by at most one event since the call began.
C11_NoDeleteNoUpdate ==
    /\ \A k \in DOMAIN calls : calls[k] \in {"list", "oracle", "create"}
    /\ \A i \in DOMAIN store0 : i \in DOMAIN store /\ store[i] = store0[i]
    /\ Cardinality(NewEventIds) <= 1
    /\ Cardinality(NewEventIds) <= CallCount("create")

\* a delete intent without a question was answered conversationally while the
\* backend held an event, and the event is still there
C11_Witness ==
    /\ Returned
    /\ ~HasKeyword(user_input)
    /\ "action" \in DOMAIN parsed
    /\ parsed["action"] = "delete"
    /\ "clarification_needed" \notin DOMAIN parsed
    /\ DOMAIN store0 # {}
    /\ store = store0
    /\ calls = <<"list", "oracle", "oracle">>

\* C12: when the intent has action create and also carries a non-empty
\* clarification question, gateway create is still called once with the
\* defaulted fields, and the reply is the create confirmation or a create
\* failure message, never the clarification question.
C12_CreateBeforeClarify ==
    (/\ CreateCase
     /\ "clarification_needed" \in DOMAIN parsed
     /\ parsed["clarification_needed"] # "") =>
        /\ CallCount("create") = 1
        /\ createArgs.summary =
              (IF "summary" \in DOMAIN parsed THEN parsed["summary"] ELSE "New Event")
        /\ createArgs.start_time \in (invokedAt + 1)..(now + 1)
        /\ createArgs.end_time = createArgs.start_time + 1
        /\ reply # <<"(?) ", parsed["clarification_needed"]>>
        /\ \A k \in DOMAIN reply : reply[k] # parsed["clarification_needed"]
        /\ createArgs.outcome = "ok" =>
              reply = <<"Created event: ", createArgs.summary,
                        "\nStart: ", StrTable[createArgs.start_time + 1],
                        "\nEnd: ", StrTable[createArgs.end_time + 1]>>
        /\ createArgs.outcome = "http" => reply = <<"Failed to create event">>
        /\ createArgs.outcome = "other" =>
              reply = <<"Error creating event: ", "Exception">>

\* a create intent carrying the question "When?" was executed and confirmed
C12_Witness ==
    /\ CreateCase
    /\ "clarification_needed" \in DOMAIN parsed
    /\ parsed["clarification_needed"] = "When?"
    /\ createArgs.outcome = "ok"
    /\ reply[1] = "Created event: "
    /\ NewEventIds # {}

\* a create intent carrying a question met a gateway failure
C12_WitnessFailed ==
    /\ CreateCase
    /\ "clarification_needed" \in DOMAIN parsed
    /\ parsed["clarification_needed"] = "When?"
    /\ createArgs.outcome = "http"
    /\ reply = <<"Failed to create event">>


\* --------------------------------- web_app.py: the registry of chat agents

Threads == 1..MaxThreads

\* what the setup form posts as gemini_api_key
ApiKeys == {<<>>, <<" ">>, <<"k">>}

\* what /api/message receives as message
Messages == {<<>>, <<" ">>, <<"h", "i">>}

\* str.strip()
RECURSIVE Strip(_)
Strip(str) ==
    IF str = <<>> THEN <<>>
    ELSE IF Head(str) = " " THEN Strip(Tail(str))
    ELSE IF str[Len(str)] = " " THEN Strip(SubSeq(str, 1, Len(str) - 1))
    ELSE str

IdleRequest ==
    [pc |-> "idle", route |-> "none", session |-> <<>>, agent |-> 0, status |-> "none"]

\* 'gemini_api_key' in session and 'session_id' in session
Authenticated(sess) ==
    "gemini_api_key" \in DOMAIN sess /\ "session_id" \in DOMAIN sess

\* the request ends with this status; the response is still to be sent
Ends(t, status) == [req[t] EXCEPT !.pc = "respond", !.status = status]

\* POST /setup up to the call of get_or_create_agent
Setup(t, key) ==
    /\ req[t].pc = "idle"
    /\ IF Strip(key) = <<>>
       THEN /\ req' = [req EXCEPT ![t] =
                        [IdleRequest EXCEPT !.pc = "respond", !.route = "setup",
                                            !.session = cookie, !.status = "no key"]]
            /\ UNCHANGED tokens
       ELSE /\ tokens < MaxSessions
            /\ tokens' = tokens + 1
            /\ req' = [req EXCEPT ![t] =
                        [IdleRequest EXCEPT !.pc = "check", !.route = "setup",
                            !.session = [gemini_api_key |-> Strip(key),
                                         session_id |-> tokens + 1]]]
    /\ UNCHANGED <<chat_agents, cookie, builtFor, served, loggedOut>>
    /\ UNCHANGED <<store, now, qvars, gw>>

\* POST /api/message up to the call of get_or_create_agent
SendMessage(t, message) ==
    /\ req[t].pc = "idle"
    /\ req' = [req EXCEPT ![t] =
                [IdleRequest EXCEPT
                    !.route = "message",
                    !.session = cookie,
                    !.pc = IF Authenticated(cookie) /\ Strip(message) # <<>>
                           THEN "check" ELSE "respond",
                    !.status = IF ~Authenticated(cookie) THEN "401"
                               ELSE IF Strip(message) = <<>> THEN "400"
                               ELSE "none"]]
    /\ UNCHANGED <<chat_agents, cookie, tokens, builtFor, served, loggedOut>>
    /\ UNCHANGED <<store, now, qvars, gw>>

\* GET /api/events up to the call of get_or_create_agent
GetEvents(t) ==
    /\ req[t].pc = "idle"
    /\ req' = [req EXCEPT ![t] =
                [IdleRequest EXCEPT
                    !.route = "events",
                    !.session = cookie,
                    !.pc = IF Authenticated(cookie) THEN "check" ELSE "respond",
                    !.status = IF Authenticated(cookie) THEN "none" ELSE "401"]]
    /\ UNCHANGED <<chat_agents, cookie, tokens, builtFor, served, loggedOut>>
    /\ UNCHANGED <<store, now, qvars, gw>>

\* get_or_create_agent: if session_id not in chat_agents
AgentCheck(t) ==
    /\ req[t].pc = "check"
    /\ req' = [req EXCEPT ![t].pc =
                IF req[t].session["session_id"] \notin DOMAIN chat_agents
                THEN "construct" ELSE "return"]
    /\ UNCHANGED <<chat_agents, cookie, tokens, builtFor, served, loggedOut>>
    /\ UNCHANGED <<store, now, qvars, gw>>

\* get_or_create_agent: chat_agents[session_id] = CalendarChatAgent(key), or
\* the constructor raises and (None, str(e)) is returned
AgentConstruct(t, outcome) ==
    /\ req[t].pc = "construct"
    /\ LET sid == req[t].session["session_id"]
       IN IF outcome = "ok"
          THEN /\ Len(builtFor) < MaxAgents
               /\ builtFor' = Append(builtFor, sid)
               /\ chat_agents' = (sid :> (Len(builtFor) + 1)) @@ chat_agents
               /\ req' = [req EXCEPT ![t].pc = "return"]
          ELSE /\ req' = [req EXCEPT ![t] =
                           Ends(t, IF req[t].route = "setup" THEN "error page"
                                   ELSE "500")]
               /\ UNCHANGED <<builtFor, chat_agents>>
    /\ UNCHANGED <<cookie, tokens, served, loggedOut>>
    /\ UNCHANGED <<store, now, qvars, gw>>

\* get_or_create_agent: return chat_agents[session_id], None; the subscript
\* raises KeyError when the entry is gone, which no handler catches
AgentReturn(t) ==
    /\ req[t].pc = "return"
    /\ LET sid == req[t].session["session_id"]
       IN req' = [req EXCEPT ![t] =
                    IF sid \notin DOMAIN chat_agents THEN Ends(t, "500")
                    ELSE IF req[t].route = "setup"
                         THEN [Ends(t, "redirect") EXCEPT !.agent = chat_agents[sid]]
                         ELSE [req[t] EXCEPT !.pc = "serve",
                                             !.agent = chat_agents[sid]]]
    /\ UNCHANGED <<chat_agents, cookie, tokens, builtFor, served, loggedOut>>
    /\ UNCHANGED <<store, now, qvars, gw>>

\* agent.process_query(user_message) or agent.calendar.list_events(...), inside
\* try/except Exception; what process_query does is specification Spec, of
\* which only the effect on the calendar is kept here: an event created or not
AgentServe(t, outcome, creates) ==
    /\ req[t].pc = "serve"
    /\ creates => /\ req[t].route = "message"
                  /\ outcome = "ok"
                  /\ Cardinality(DOMAIN store \ {PreId}) < MaxEvents
    /\ LET sid == req[t].session["session_id"]
       IN served' = served \cup
             {[sid |-> sid, agent |-> req[t].agent,
               registered |-> /\ sid \in DOMAIN chat_agents
                              /\ chat_agents[sid] = req[t].agent,
               inSession |-> sid \notin loggedOut]}
    /\ store' = IF creates
                THEN CreateEvent("ok", store, "New Event", CreateStart(NoDict, now),
                                 CreateEnd(NoDict, CreateStart(NoDict, now)),
                                 "", "").store
                ELSE store
    /\ req' = [req EXCEPT ![t] = Ends(t, IF outcome = "ok" THEN "200" ELSE "500")]
    /\ UNCHANGED <<chat_agents, cookie, tokens, builtFor, loggedOut>>
    /\ UNCHANGED <<now, qvars, gw>>

\* GET /logout: session_id = session.get('session_id') and the membership test
Logout(t) ==
    /\ req[t].pc = "idle"
    /\ LET hasId == "session_id" \in DOMAIN cookie
       IN /\ req' = [req EXCEPT ![t] =
                       [IdleRequest EXCEPT
                           !.route = "logout",
                           !.session = cookie,
                           !.pc = IF hasId /\ cookie["session_id"] \in DOMAIN chat_agents
                                  THEN "del" ELSE "clear"]]
          /\ loggedOut' = IF hasId THEN loggedOut \cup {cookie["session_id"]}
                          ELSE loggedOut
    /\ UNCHANGED <<chat_agents, cookie, tokens, builtFor, served>>
    /\ UNCHANGED <<store, now, qvars, gw>>

\* del chat_agents[session_id]; KeyError when another logout removed it first
LogoutDel(t) ==
    /\ req[t].pc = "del"
    /\ LET sid == req[t].session["session_id"]
       IN IF sid \in DOMAIN chat_agents
          THEN /\ chat_agents' = [i \in DOMAIN chat_agents \ {sid} |-> chat_agents[i]]
               /\ req' = [req EXCEPT ![t].pc = "clear"]
          ELSE /\ req' = [req EXCEPT ![t] = Ends(t, "500")]
               /\ UNCHANGED chat_agents
    /\ UNCHANGED <<cookie, tokens, builtFor, served, loggedOut>>
    /\ UNCHANGED <<store, now, qvars, gw>>

\* session.clear(); return redirect(url_for('index'))
LogoutClear(t) ==
    /\ req[t].pc = "clear"
    /\ req' = [req EXCEPT ![t] = [Ends(t, "redirect") EXCEPT !.session = <<>>]]
    /\ UNCHANGED <<chat_agents, cookie, tokens, builtFor, served, loggedOut>>
    /\ UNCHANGED <<store, now, qvars, gw>>

\* the response reaches the browser; Flask sends the session cookie along when
\* the handler changed the session
Respond(t) ==
    /\ req[t].pc = "respond"
    /\ cookie' = IF \/ (req[t].route = "setup" /\ req[t].status # "no key")
                   \/ (req[t].route = "logout" /\ req[t].status = "redirect")
                 THEN req[t].session
                 ELSE cookie
    /\ req' = [req EXCEPT ![t] = IdleRequest]
    /\ UNCHANGED <<chat_agents, tokens, builtFor, served, loggedOut>>
    /\ UNCHANGED <<store, now, qvars, gw>>

WebNext ==
    \/ \E t \in Threads, key \in ApiKeys : Setup(t, key)
    \/ \E t \in Threads, message \in Messages : SendMessage(t, message)
    \/ \E t \in Threads : GetEvents(t)
    \/ \E t \in Threads : AgentCheck(t)
    \/ \E t \in Threads, outcome \in {"ok", "raises"} : AgentConstruct(t, outcome)
    \/ \E t \in Threads : AgentReturn(t)
    \/ \E t \in Threads, outcome \in {"ok", "raises"}, creates \in BOOLEAN :
          AgentServe(t, outcome, creates)
    \/ \E t \in Threads : Logout(t)
    \/ \E t \in Threads : LogoutDel(t)
    \/ \E t \in Threads : LogoutClear(t)
    \/ \E t \in Threads : Respond(t)

SpecWeb == Init /\ [][WebNext]_vars

\* --------------------------------- C13: one agent per session

\* the agents constructed for a session id
AgentsOf(sid) == {a \in DOMAIN builtFor : builtFor[a] = sid}

\* C13: whatever the interleaving of requests carrying one session id, at most
\* one CalendarChatAgent is constructed for the id between its setup and its
\* logout, every request of the session that an agent answers is answered by
\* the agent registered for the id, the same one each time, and an id for
\* which every construction failed has no entry in the registry.
C13_OneAgentPerSession ==
    /\ \A sid \in 1..tokens :
          sid \notin loggedOut => Cardinality(AgentsOf(sid)) <= 1
    /\ \A r \in served : r.inSession => r.registered
    /\ \A r1, r2 \in served :
          (r1.inSession /\ r2.inSession /\ r1.sid = r2.sid) => r1.agent = r2.agent
    /\ \A sid \in 1..tokens : AgentsOf(sid) = {} => sid \notin DOMAIN chat_agents

====
